---- MODULE Spec2Model ----
(***************************************************************************)
(* Model of database_client_template/sql_database_client.py:               *)
(* SQLDatabaseClient with its cache directory, the read connection, the    *)
(* destination engine and the tenacity retry wrapper around load_data and  *)
(* write_data.                                                             *)
(***************************************************************************)
EXTENDS Integers, Sequences, FiniteSets, TLC

\* ------------------------------------------------------------------ bounds
MaxDate == 2          \* UTC calendar days the clock runs through
MaxIndexCols == 1     \* largest index_cols a caller passes

\* --------------------------------------------------------- program constants
MaxAttempts == 10     \* stop_after_attempt(10)
reraise == FALSE      \* the decorators do not pass reraise=True

Dates == 1..MaxDate

\* datetime.utcnow().strftime("%Y%m%d") of day d
strftime(d) == <<"20240101", "20240102", "20240103", "20240104">>[d]

\* query names, as sequences of name fragments: "sales" and "sales_eu"
QueryNames == { <<"sales">>, <<"sales", "_eu">> }

\* cache_file_fmt.format(filename, suffix) = "{}_cache_{}.pickle"
cache_file_fmt(filename, sfx) == filename \o <<"_cache_", strftime(sfx), ".pickle">>

\* str.startswith
startswith(file, prefix) ==
    /\ Len(prefix) <= Len(file)
    /\ \A i \in 1..Len(prefix) : file[i] = prefix[i]

\* what the source database answers: cursor.description names and the rows
SourceResults ==
    { [description |-> <<"ID", "Name">>,        rows |-> 1, data |-> 1],
      [description |-> <<"id", "Day", "VAL">>,  rows |-> 1, data |-> 2],
      [description |-> <<"ID", "Name">>,        rows |-> 0, data |-> 3] }

LowerCaseNames == {"id", "name", "day", "val"}

\* str.lower on a column name
lower_identity(name) == name
lower(name) ==
    CASE name = "ID"   -> "id"
      [] name = "Name" -> "name"
      [] name = "Day"  -> "day"
      [] name = "VAL"  -> "val"
      [] OTHER         -> name

\* df.columns = [i[0] for i in cursor.description]; df.columns.str.lower()
lower_columns(description) == [i \in 1..Len(description) |-> lower(description[i])]

\* a DataFrame: index names, column names, identity of the row data
DataFrame(index, columns, data) ==
    [data |-> data, index |-> index, columns |-> columns, ok |-> TRUE]

\* a cache file that pickle.dump did not finish
Truncated == [data |-> 0, index |-> <<>>, columns |-> <<>>, ok |-> FALSE]

NoFrame == [data |-> -1, index |-> <<>>, columns |-> <<>>, ok |-> FALSE]

\* df.set_index(list(df.columns[list(range(index_cols))]), inplace=True)
set_index(df, index_cols) ==
    IF index_cols > 0
    THEN DataFrame(SubSeq(df.columns, 1, index_cols),
                   SubSeq(df.columns, index_cols + 1, Len(df.columns)),
                   df.data)
    ELSE df

VARIABLES
    today,              \* the UTC calendar day of the wall clock
    suffix,             \* self.suffix
    credentials_store,  \* TRUE iff self.credentials_store is not None
    db_client,          \* self.db_client: "none", "open" or "closed"
    db_engine,          \* self.db_engine: "none" or "engine"
    engines_created,    \* sqlalchemy.create_engine calls that gave this client
                        \* an engine
    sql_dtypes,         \* the dtype mapping write_data last computed in this call
    files,              \* the cache directory: file name -> content
    pc,                 \* "idle", "attempt" (a call is in its retry loop) or
                        \* "done" (the call ended, the caller has the outcome)
    call,               \* the call in progress, or the last one
    attempt_number,     \* tenacity's retry_state.attempt_number
    bodyRuns,           \* times the decorated body ran in this call
    sleeps,             \* backoff sleeps of this call
    waits,              \* seconds slept in each backoff sleep of this call
    logs,               \* before_sleep log records of this call
    events,             \* the steps of the body this call reached
    outcome             \* how the last call ended

vars == <<today, suffix, credentials_store, db_client, db_engine,
          engines_created, sql_dtypes, files, pc,
          call, attempt_number, bodyRuns, sleeps, waits, logs, events,
          outcome>>

\* had: the days for which a cache file of filename existed when the call began
NoWriteFrame == [index |-> <<>>, columns |-> <<>>]

\* the mapping with no entry
NoDtypes == [n \in {} |-> ""]

NoCall == [filename |-> <<>>, df |-> NoWriteFrame, index_cols |-> 0,
           op |-> "none", use_cache |-> FALSE, had |-> {}]

NoOutcome == [df |-> NoFrame, kind |-> "none", exc |-> "", cause |-> ""]

EmptyDir == [f \in {} |-> NoFrame]

\* SQLDatabaseClient.__init__
Init ==
    /\ today = 1
    /\ suffix = today
    /\ credentials_store \in BOOLEAN
    /\ db_client = "none"
    /\ db_engine = "none"
    /\ engines_created = 0
    /\ sql_dtypes = NoDtypes
    /\ files = EmptyDir
    /\ pc = "idle"
    /\ call = NoCall
    /\ attempt_number = 0
    /\ bodyRuns = 0
    /\ sleeps = 0
    /\ waits = <<>>
    /\ logs = 0
    /\ events = {}
    /\ outcome = NoOutcome


\* ------------------------------------------------------- the cache directory

\* restriction of the directory to the file names in keep
Restrict(dir, keep) == [f \in keep |-> dir[f]]

\* the directory with file name f holding content
WriteFile(dir, f, content) ==
    [g \in DOMAIN dir \cup {f} |-> IF g = f THEN content ELSE dir[g]]

\* the files clear_cached_files removes: those whose name starts with filename
Matching(dir, filename) == {f \in DOMAIN dir : startswith(f, filename)}

\* SQLDatabaseClient.clear_cached_files, run to its end
clear_cached_files_today(dir, filename) ==
    Restrict(dir, DOMAIN dir \ {cache_file_fmt(filename, suffix)})
clear_cached_files(dir, filename) ==
    Restrict(dir, DOMAIN dir \ Matching(dir, filename))

\* os.path.exists(cache_filename) and use_cache
CacheHit_never(dir, cache_filename, use_cache) == FALSE
CacheHit_any(dir, cache_filename, use_cache) == cache_filename \in DOMAIN dir
CacheHit(dir, cache_filename, use_cache) ==
    cache_filename \in DOMAIN dir /\ use_cache

\* ------------------------------------------------------------ load_data body

\* One run of the body takes a fault: the step it names raises for a reason
\* outside the program ("pickle.load", "read_text", "connect", "execute",
\* "clear", "open", "pickle.dump"); with "none" no step does.

\* the run raised exc, leaving the connection and the directory as given
Raised_wiping(exc, conn, dir, ev) ==
    [ok |-> FALSE, df |-> NoFrame, exc |-> exc, db_client |-> conn,
     files |-> EmptyDir, events |-> ev]
Raised(exc, conn, dir, ev) ==
    [ok |-> FALSE, df |-> NoFrame, exc |-> exc, db_client |-> conn,
     files |-> dir, events |-> ev]

\* the run returned df
Returned(df, conn, dir, ev) ==
    [ok |-> TRUE, df |-> df, exc |-> "", db_client |-> conn,
     files |-> dir, events |-> ev]

\* the else-branch after the query ran: close, evict, write the cache file
load_data_after_query(filename, use_cache, fault, df, kept, ev) ==
    LET cache_filename == cache_file_fmt(filename, suffix)
        ev2 == ev \cup {"close"}
        cleared == clear_cached_files(files, filename)
    IN  IF fault = "clear"
        THEN Raised("OSError", "closed",
                    Restrict(files, (DOMAIN cleared) \cup kept), ev2 \cup {"clear"})
        ELSE IF ~use_cache
        THEN Returned(df, "closed", cleared, ev2 \cup {"clear"})
        ELSE IF fault = "open"
        THEN Raised("OSError", "closed", cleared, ev2 \cup {"clear", "dump"})
        ELSE IF fault = "pickle.dump"
        THEN Raised("PicklingError", "closed",
                    WriteFile(cleared, cache_filename, Truncated),
                    ev2 \cup {"clear", "dump"})
        ELSE Returned(df, "closed", WriteFile(cleared, cache_filename, df),
                      ev2 \cup {"clear", "dump"})

\* one run of the body of SQLDatabaseClient.load_data; src is what the source
\* database answers; when clear_cached_files raises (os.listdir, or os.remove
\* on one of the matching files), kept are the matching files not removed
load_data(filename, index_cols, use_cache, fault, src, kept) ==
    LET cache_filename == cache_file_fmt(filename, suffix)
    IN  IF CacheHit(files, cache_filename, use_cache)
        THEN IF fault = "pickle.load" \/ ~files[cache_filename].ok
             THEN Raised("EOFError", db_client, files, {"load"})
             ELSE Returned(files[cache_filename], db_client, files, {"load"})
        ELSE IF fault = "read_text"
        THEN Raised("FileNotFoundError", db_client, files, {"read_text"})
        ELSE IF db_client = "none" /\ fault = "connect"
        THEN Raised("OperationalError", "none", files, {"read_text", "connect"})
        ELSE LET conn == IF db_client = "none" THEN "open" ELSE db_client
                 ev == {"read_text", "execute"}
                         \cup (IF db_client = "none" THEN {"connect"} ELSE {})
             IN  IF conn = "closed"
                 THEN Raised("InterfaceError", conn, files, ev)
                 ELSE IF fault = "execute"
                 THEN Raised("ProgrammingError", conn, files, ev)
                 ELSE IF src.rows = 0
                 THEN Raised("ValueError", conn, files, ev)
                 ELSE IF index_cols > Len(src.description)
                 THEN Raised("IndexError", conn, files, ev)
                 ELSE load_data_after_query(
                          filename, use_cache, fault,
                          set_index(DataFrame(<<>>, lower_columns(src.description),
                                              src.data), index_cols),
                          kept, ev)

\* ----------------------------------------------------------- write_data body

\* str(dtype) of a column, as a sequence of fragments: "object",
\* "datetime64[ns]", "float64", "int64", "bool", "interval[float64, right]"
DtypeObject   == <<"object">>
DtypeDatetime == <<"datetime", "64[ns]">>
DtypeFloat    == <<"float", "64">>
DtypeInt      == <<"int", "64">>
DtypeBool     == <<"bool">>
DtypeInterval == <<"int", "erval[", "float", "64, right]">>

\* pattern in str(j)
contains(pattern, dtype) == \E i \in 1..Len(dtype) : dtype[i] = pattern

Col(name, dtype) == [name |-> name, dtype |-> dtype]

\* the frames a caller hands to write_data: index levels and columns, each
\* with its name and dtype (no index level: the default RangeIndex)
WriteFrames ==
    { [index |-> <<>>,
       columns |-> <<Col("id", DtypeInt), Col("name", DtypeObject),
                     Col("val", DtypeFloat), Col("day", DtypeDatetime)>>],
      [index |-> <<Col("id", DtypeInt)>>,
       columns |-> <<Col("bin", DtypeInterval), Col("flag", DtypeBool)>>],
      [index |-> <<>>,
       columns |-> <<Col("a", DtypeInt), Col("a", DtypeObject),
                     Col("a", DtypeBool)>>],
      [index |-> <<Col("id", DtypeInt)>>,
       columns |-> <<Col("id", DtypeObject)>>] }

ColumnNames(cols) == {cols[i].name : i \in 1..Len(cols)}

\* df.reset_index() raises: an index level is named like a column
reset_index_raises(df) == ColumnNames(df.index) \cap ColumnNames(df.columns) # {}

\* the columns of df.reset_index(): the index levels, or the RangeIndex as an
\* int64 column "index", in front of the columns
reset_index(df) ==
    (IF df.index = <<>> THEN <<Col("index", DtypeInt)>> ELSE df.index) \o df.columns

\* sqldtype_dict.update({i: ...})
update(dict, name, sqltype) ==
    [n \in DOMAIN dict \cup {name} |-> IF n = name THEN sqltype ELSE dict[n]]

\* the four if-statements of dtype_to_sqldtype for one column
column_sqldtype_elif(dict, c) ==
    IF contains("object", c.dtype) THEN update(dict, c.name, "VARCHAR(12)")
    ELSE IF contains("datetime", c.dtype) THEN update(dict, c.name, "DateTime")
    ELSE IF contains("float", c.dtype) THEN update(dict, c.name, "FLOAT(12)")
    ELSE IF contains("int", c.dtype) THEN update(dict, c.name, "INT")
    ELSE dict
column_sqldtype(dict, c) ==
    LET d1 == IF contains("object", c.dtype)
              THEN update(dict, c.name, "VARCHAR(12)") ELSE dict
        d2 == IF contains("datetime", c.dtype)
              THEN update(d1, c.name, "DateTime") ELSE d1
        d3 == IF contains("float", c.dtype)
              THEN update(d2, c.name, "FLOAT(12)") ELSE d2
    IN  IF contains("int", c.dtype) THEN update(d3, c.name, "INT") ELSE d3

\* the loop of dtype_to_sqldtype over the first n columns
RECURSIVE sqldtype_loop(_, _)
sqldtype_loop(cols, n) ==
    IF n = 0 THEN NoDtypes ELSE column_sqldtype(sqldtype_loop(cols, n - 1), cols[n])

\* SQLDatabaseClient.dtype_to_sqldtype
dtype_to_sqldtype(cols) == sqldtype_loop(cols, Len(cols))

\* self.db_engine is None
engine_is_none_always(engine) == TRUE
engine_is_none(engine) == engine = "none"

\* one run of the body of SQLDatabaseClient.write_data; created counts the
\* engines sqlalchemy.create_engine gave the client in this run, sql_dtypes is
\* the mapping last computed for to_sql
write_data(df, fault) ==
    IF ~credentials_store
    THEN [ok |-> FALSE, exc |-> "ValueError", db_engine |-> db_engine,
          created |-> 0, sql_dtypes |-> sql_dtypes, events |-> {}]
    ELSE IF engine_is_none(db_engine) /\ fault = "create_engine"
    THEN [ok |-> FALSE, exc |-> "ArgumentError", db_engine |-> db_engine,
          created |-> 0, sql_dtypes |-> sql_dtypes, events |-> {"create_engine"}]
    ELSE LET created == IF engine_is_none(db_engine) THEN 1 ELSE 0
             ev == IF created = 1 THEN {"create_engine"} ELSE {}
             dtypes == dtype_to_sqldtype(reset_index(df))
         IN  IF reset_index_raises(df)
             THEN [ok |-> FALSE, exc |-> "ValueError", db_engine |-> "engine",
                   created |-> created, sql_dtypes |-> sql_dtypes, events |-> ev]
             ELSE IF fault = "to_sql"
             THEN [ok |-> FALSE, exc |-> "OperationalError", db_engine |-> "engine",
                   created |-> created, sql_dtypes |-> dtypes,
                   events |-> ev \cup {"dtype_to_sqldtype", "to_sql"}]
             ELSE [ok |-> TRUE, exc |-> "", db_engine |-> "engine",
                   created |-> created, sql_dtypes |-> dtypes,
                   events |-> ev \cup {"dtype_to_sqldtype", "to_sql"}]

\* ------------------------------------------------------------ retry wrapper

\* stop_after_attempt(10)
\* wait_exponential(multiplier=1, min=5, max=10) of the two decorators
multiplier == 1
wait_min == 5
wait_max == 10
exp_base == 2

Min(a, b) == IF a < b THEN a ELSE b
Max(a, b) == IF a > b THEN a ELSE b

\* the seconds slept after the failed attempt n
wait_exponential_unclamped(n) ==
    Max(0, Min(multiplier * exp_base ^ (n - 1), wait_max))
wait_exponential(n) ==
    Max(Max(0, wait_min), Min(multiplier * exp_base ^ (n - 1), wait_max))

stop_after_11(n) == n >= MaxAttempts + 1
stop(n) == n >= MaxAttempts

\* what the wrapper raises once stop says so: the last attempt's own error
\* with reraise=True, tenacity's RetryError around it otherwise
RetryExc(last) == IF reraise THEN last ELSE "RetryError"

\* the rest of one iteration of the wrapper's loop, after the body returned df
\* (ok) or raised exc: return, or stop and raise, or log (before_sleep), sleep
\* and go to the next attempt
AfterAttempt(ok, df, exc) ==
    /\ bodyRuns' = bodyRuns + 1
    /\ IF ok
       THEN /\ pc' = "done"
            /\ outcome' = [df |-> df, kind |-> "returned", exc |-> "", cause |-> ""]
            /\ UNCHANGED <<attempt_number, sleeps, waits, logs>>
       ELSE IF stop(attempt_number)
       THEN /\ pc' = "done"
            /\ outcome' = [df |-> NoFrame, kind |-> "raised",
                           exc |-> RetryExc(exc), cause |-> exc]
            /\ UNCHANGED <<attempt_number, sleeps, waits, logs>>
       ELSE /\ pc' = "attempt"
            /\ logs' = logs + 1
            /\ sleeps' = sleeps + 1
            /\ waits' = Append(waits, wait_exponential(attempt_number))
            /\ attempt_number' = attempt_number + 1
            /\ UNCHANGED outcome

\* ------------------------------------------------------------------ actions

\* a new run of the script: main() constructs a client (__init__)
ConstructWith(store) ==
    /\ pc = "idle"
    /\ suffix' = today
    /\ credentials_store' = store
    /\ db_client' = "none"
    /\ db_engine' = "none"
    /\ engines_created' = 0
    /\ sql_dtypes' = NoDtypes
    /\ call' = NoCall
    /\ attempt_number' = 0
    /\ bodyRuns' = 0
    /\ sleeps' = 0
    /\ waits' = <<>>
    /\ logs' = 0
    /\ events' = {}
    /\ outcome' = NoOutcome
    /\ UNCHANGED <<today, files, pc>>

\* SQLDatabaseClient(job_config), with or without a "store" section
Construct == \E store \in BOOLEAN : ConstructWith(store)

\* SQLDatabaseClient(job_config) of a job without a "store" section
ConstructReader == ConstructWith(FALSE)

\* midnight UTC passes between two calls
Tick ==
    /\ pc = "idle"
    /\ today < MaxDate
    /\ today' = today + 1
    /\ UNCHANGED <<suffix, credentials_store, db_client, db_engine,
                   engines_created, sql_dtypes, files, pc,
                   call, attempt_number, bodyRuns, sleeps, waits, logs, events,
                   outcome>>

\* the wrapper starts a call: attempt 1 is about to run
Begin(c) ==
    /\ pc = "idle"
    /\ pc' = "attempt"
    /\ call' = c
    /\ attempt_number' = 1
    /\ bodyRuns' = 0
    /\ sleeps' = 0
    /\ waits' = <<>>
    /\ logs' = 0
    /\ events' = {}
    /\ outcome' = NoOutcome
    /\ sql_dtypes' = NoDtypes
    /\ UNCHANGED <<today, suffix, credentials_store, db_client, db_engine,
                   engines_created, files>>

\* a caller calls client.load_data(filename, index_cols, use_cache)
LoadWith(use_cache) ==
    \E filename \in QueryNames, index_cols \in 0..MaxIndexCols :
        Begin([filename |-> filename, df |-> NoWriteFrame,
               index_cols |-> index_cols, op |-> "load",
               use_cache |-> use_cache,
               had |-> {d \in Dates : cache_file_fmt(filename, d) \in DOMAIN files}])

CallLoad == \E use_cache \in BOOLEAN : LoadWith(use_cache)

\* a job whose use_cache setting is false calls client.load_data
CallLoadUncached == LoadWith(FALSE)

\* a caller calls client.write_data(df, table_name)
CallWrite ==
    \E df \in WriteFrames :
        Begin([filename |-> <<>>, df |-> df, index_cols |-> 0,
               op |-> "write", use_cache |-> FALSE, had |-> {}])

\* the faults that can strike one run of the body in the current state, each
\* counted once: a fault at a step the run does not reach is no fault
LoadFaultsNow(filename, use_cache) ==
    IF CacheHit(files, cache_file_fmt(filename, suffix), use_cache)
    THEN {"none", "pickle.load"}
    ELSE IF db_client = "closed"
    THEN {"none", "read_text"}
    ELSE {"none", "read_text", "execute", "clear"}
            \cup (IF db_client = "none" THEN {"connect"} ELSE {})
            \cup (IF use_cache THEN {"open", "pickle.dump"} ELSE {})

\* the answers of the source database that make a difference to the run
SourcesNow(filename, use_cache, fault) ==
    IF \/ CacheHit(files, cache_file_fmt(filename, suffix), use_cache)
       \/ db_client = "closed"
       \/ fault \in {"read_text", "connect", "execute"}
    THEN {CHOOSE src \in SourceResults : TRUE}
    ELSE SourceResults

\* one attempt of load_data under the retry decorator
LoadAttempt ==
    /\ pc = "attempt"
    /\ call.op = "load"
    /\ \E fault \in LoadFaultsNow(call.filename, call.use_cache),
          kept \in SUBSET Matching(files, call.filename) :
       \E src \in SourcesNow(call.filename, call.use_cache, fault) :
          /\ fault # "clear" => kept = {}
          /\ fault = "clear" /\ Matching(files, call.filename) # {} => kept # {}
          /\ LET r == load_data(call.filename, call.index_cols, call.use_cache,
                                fault, src, kept)
             IN  /\ db_client' = r.db_client
                 /\ files' = r.files
                 /\ events' = events \cup r.events
                 /\ AfterAttempt(r.ok, r.df, r.exc)
    /\ UNCHANGED <<today, suffix, credentials_store, db_engine, engines_created,
                   sql_dtypes, call>>

\* the faults that can strike one run of the body of write_data now
WriteFaultsNow ==
    IF ~credentials_store THEN {"none"}
    ELSE (IF reset_index_raises(call.df) THEN {"none"} ELSE {"none", "to_sql"})
            \cup (IF engine_is_none(db_engine) THEN {"create_engine"} ELSE {})

\* one attempt of write_data under the retry decorator
WriteAttempt ==
    /\ pc = "attempt"
    /\ call.op = "write"
    /\ \E fault \in WriteFaultsNow :
          LET r == write_data(call.df, fault)
          IN  /\ db_engine' = r.db_engine
              /\ sql_dtypes' = r.sql_dtypes
              /\ engines_created' = engines_created + r.created
              /\ events' = events \cup r.events
              /\ AfterAttempt(r.ok, NoFrame, r.exc)
    /\ UNCHANGED <<today, suffix, credentials_store, db_client, files, call>>

\* the caller goes on with the outcome of the call
Return ==
    /\ pc = "done"
    /\ pc' = "idle"
    /\ call' = NoCall
    /\ attempt_number' = 0
    /\ bodyRuns' = 0
    /\ sleeps' = 0
    /\ waits' = <<>>
    /\ logs' = 0
    /\ events' = {}
    /\ outcome' = NoOutcome
    /\ sql_dtypes' = NoDtypes
    /\ UNCHANGED <<today, suffix, credentials_store, db_client, db_engine,
                   engines_created, files>>

Next ==
    \/ Construct
    \/ Tick
    \/ CallLoad
    \/ CallWrite
    \/ LoadAttempt
    \/ WriteAttempt
    \/ Return

Spec == Init /\ [][Next]_vars

\* the loader alone: runs of the script that only load
NextLoad ==
    \/ ConstructReader
    \/ Tick
    \/ CallLoad
    \/ LoadAttempt
    \/ Return

\* the writer alone: runs of the script that only write
NextWrite ==
    \/ Construct
    \/ Tick
    \/ CallWrite
    \/ WriteAttempt
    \/ Return

SpecWrite == Init /\ [][NextWrite]_vars

InitLoad == Init /\ ~credentials_store

SpecLoad == InitLoad /\ [][NextLoad]_vars

\* a job that loads without the cache and writes: client state and retries
NextUncached ==
    \/ Construct
    \/ Tick
    \/ CallLoadUncached
    \/ CallWrite
    \/ LoadAttempt
    \/ WriteAttempt
    \/ Return

SpecUncached == Init /\ [][NextUncached]_vars

\* ------------------------------------------------------------------- typing

TypeOK ==
    /\ today \in Dates
    /\ suffix \in Dates
    /\ suffix <= today
    /\ credentials_store \in BOOLEAN
    /\ db_client \in {"none", "open", "closed"}
    /\ db_engine \in {"none", "engine"}
    /\ pc \in {"idle", "attempt", "done"}
    /\ attempt_number \in 0..MaxAttempts + 1
    /\ waits \in Seq(Nat)
    /\ outcome.kind \in {"none", "returned", "raised"}

\* ---------------------------------------------------------------- properties

\* cache_filename of the call in progress (or just ended)
CacheFile == cache_file_fmt(call.filename, suffix)

\* the days of the cache artifacts of query name q in the cache directory
ArtifactDays(q) == {d \in Dates : cache_file_fmt(q, d) \in DOMAIN files}

LoadReturned == pc = "done" /\ call.op = "load" /\ outcome.kind = "returned"

\* C1: the cache directory never holds two cache artifacts of one query name,
\* and when a load has written the artifact of its query, that artifact is the
\* only one of the query (the one of an earlier day is gone).
C1_AtMostOneArtifactPerQuery ==
    /\ \A q \in QueryNames : Cardinality(ArtifactDays(q)) <= 1
    /\ LoadReturned /\ "dump" \in events
          => ArtifactDays(call.filename) = {suffix}

\* a load wrote today's artifact of a query that had one of an earlier day
C1_Witness ==
    /\ LoadReturned
    /\ "dump" \in events
    /\ \E d \in call.had : d < suffix
    /\ ArtifactDays(call.filename) = {suffix}

\* C2: a load called with use_cache=true while the same-day artifact exists
\* never enters the query path (no query file read, no connection, no query,
\* no eviction, no cache write: the artifacts of the query stay as they were),
\* and what it returns is the content of that artifact.
C2_CacheHitServedFromArtifact ==
    call.op = "load" /\ call.use_cache /\ suffix \in call.had
        => /\ events \subseteq {"load"}
           /\ ArtifactDays(call.filename) = call.had
           /\ LoadReturned => /\ files[CacheFile].ok
                              /\ outcome.df = files[CacheFile]

\* a load with use_cache=true returned while the same-day artifact existed
C2_Witness ==
    /\ LoadReturned
    /\ call.use_cache
    /\ suffix \in call.had

\* C3: a load called with use_cache=false takes the query path in every
\* attempt, never reads an artifact, never writes one, and once it has
\* returned no artifact of its query name is left.
C3_NoCacheWithoutFlag ==
    call.op = "load" /\ ~call.use_cache
        => /\ "load" \notin events
           /\ "dump" \notin events
           /\ bodyRuns > 0 => "read_text" \in events
           /\ LoadReturned => /\ {"execute", "clear"} \subseteq events
                              /\ ArtifactDays(call.filename) = {}

\* a load with use_cache=false returned although the same-day artifact existed
C3_Witness ==
    /\ LoadReturned
    /\ ~call.use_cache
    /\ suffix \in call.had

\* C4: a write on a client without destination credentials runs its body once:
\* no second attempt, no sleep, no engine, no network call.
C4_NoCredentialsFailsAtOnce ==
    call.op = "write" /\ ~credentials_store
        => /\ bodyRuns <= 1
           /\ sleeps = 0
           /\ db_engine = "none"
           /\ events = {}
           /\ bodyRuns = 1 => pc = "done" /\ outcome.cause = "ValueError"

\* C5: a call that ends by raising has made exactly 10 attempts and raises the
\* error of the 10th attempt itself, not another or a wrapping one.
C5_RaisesLastErrorItself ==
    pc = "done" /\ outcome.kind = "raised"
        => /\ bodyRuns = MaxAttempts
           /\ outcome.exc = outcome.cause

\* C6: no call runs its body more than 10 times; a call that returns at attempt
\* k has run the body k times, slept k-1 times and logged once before each
\* sleep, and a load that wrote its result to the cache returns that result.
C6_ReturnsAtFirstSuccess ==
    /\ bodyRuns <= MaxAttempts
    /\ logs = sleeps
    /\ pc = "attempt" => bodyRuns = attempt_number - 1 /\ sleeps = bodyRuns
    /\ pc = "done" => bodyRuns = attempt_number /\ sleeps = bodyRuns - 1
    /\ LoadReturned /\ "dump" \in events => outcome.df = files[CacheFile]

\* a call returned at its third attempt
C6_Witness ==
    /\ pc = "done"
    /\ outcome.kind = "returned"
    /\ bodyRuns = 3
    /\ sleeps = 2

\* C7: a load returns a cache artifact only if it is dated with the day of the
\* call, and a load with use_cache=true on a day later than the day of the
\* query's artifact replaces that artifact by one dated with the day of the call.
C7_CachedResultIsOfToday ==
    /\ LoadReturned /\ "load" \in events => suffix = today
    /\ LoadReturned /\ call.use_cache /\ (\E d \in call.had : d < today)
          => ArtifactDays(call.filename) = {today}

\* C8: the index of a returned result is the first index_cols columns of the
\* query result, in order, followed by the other columns in order.
C8_IndexIsFirstKColumns ==
    LoadReturned
        => /\ Len(outcome.df.index) = call.index_cols
           /\ \E src \in SourceResults :
                  /\ src.data = outcome.df.data
                  /\ outcome.df.index \o outcome.df.columns
                        = lower_columns(src.description)

NamesOf(df) == {df.index[i] : i \in 1..Len(df.index)}
                  \cup {df.columns[i] : i \in 1..Len(df.columns)}

\* C9: every column name and index name of a returned result is lower-case,
\* for results of a query and for results read from a cache artifact, and so
\* is every name in every artifact the loader wrote.
C9_ColumnNamesLowerCase ==
    /\ LoadReturned => NamesOf(outcome.df) \subseteq LowerCaseNames
    /\ \A f \in DOMAIN files : NamesOf(files[f]) \subseteq LowerCaseNames

\* a load returned from the cache a result whose source columns are "ID", "Name"
C9_Witness ==
    /\ LoadReturned
    /\ "load" \in events
    /\ outcome.df.data = 1
    /\ NamesOf(outcome.df) = {"id", "name"}

\* C10: when a load call has ended, returned or raised, the client holds no
\* open read connection.
C10_NoOpenConnectionAfterLoad ==
    pc = "done" /\ call.op = "load" => db_client # "open"
\* some run of the body of load_data in the current state returns: the run
\* that no fault strikes, on a source database that answers
LoadCanReturn == ENABLED (LoadAttempt /\ outcome'.kind = "returned")

\* C11: every query of a load is executed on a connection that is open: no
\* load ends by raising because its query went to a connection that load had
\* closed, and a load that is about to start and misses the cache can return
\* (on a healthy database it does).
C11_QueriesRunOnOpenConnection ==
    /\ pc = "done" /\ call.op = "load" => outcome.cause # "InterfaceError"
    /\ /\ pc = "attempt"
       /\ call.op = "load"
       /\ bodyRuns = 0
       /\ ~CacheHit(files, CacheFile, call.use_cache)
       => LoadCanReturn
\* C12: a client never gets a second engine: it has an engine exactly if one
\* create_engine call gave it one, an engine is created only by an attempt of
\* write_data that finds self.db_engine None, an engine once there stays, and
\* a load or the construction of a client creates none.
C12_EngineCreatedAtMostOnce ==
    /\ [](/\ engines_created <= 1
          /\ (db_engine = "engine") = (engines_created = 1)
          /\ "create_engine" \in events => call.op = "write")
    /\ [][/\ engines_created' > engines_created
             => pc = "attempt" /\ call.op = "write" /\ db_engine = "none"
          /\ db_engine = "engine" /\ pc # "idle" => db_engine' = "engine"
          /\ pc = "idle" /\ pc' = "idle" => engines_created' <= engines_created]_vars

\* a write returned on the engine an earlier call of the client had created
C12_Witness ==
    /\ pc = "done"
    /\ call.op = "write"
    /\ outcome.kind = "returned"
    /\ "create_engine" \notin events
    /\ db_engine = "engine"
    /\ engines_created = 1
\* the dtype mapping of the write in progress has been computed
DtypesComputed == call.op = "write" /\ "dtype_to_sqldtype" \in events

\* the columns the mapping of the write in progress is about
WrittenColumns == reset_index(call.df)

\* the sql type the claim gives to a pattern
SqlTypeOf(pattern) ==
    CASE pattern = "object"   -> "VARCHAR(12)"
      [] pattern = "datetime" -> "DateTime"
      [] pattern = "float"    -> "FLOAT(12)"
      [] pattern = "int"      -> "INT"

DtypePatterns == {"object", "datetime", "float", "int"}

\* the sql type of the last of the patterns object, datetime, float, int that
\* a type name contains
LastPatternType(dtype) ==
    IF contains("int", dtype) THEN "INT"
    ELSE IF contains("float", dtype) THEN "FLOAT(12)"
    ELSE IF contains("datetime", dtype) THEN "DateTime"
    ELSE "VARCHAR(12)"

\* a type name contains one of the four patterns
Matches(dtype) == \E p \in DtypePatterns : contains(p, dtype)

\* the positions of the written columns of name n whose type name contains a
\* pattern
MatchingNamed(n) ==
    {i \in 1..Len(WrittenColumns) :
        WrittenColumns[i].name = n /\ Matches(WrittenColumns[i].dtype)}

\* the last written column of name n whose type name contains a pattern
LastMatching(n) ==
    WrittenColumns[CHOOSE i \in MatchingNamed(n) :
                      \A j \in MatchingNamed(n) : j <= i]

\* C13 as stated: every column whose type name contains one of the four
\* patterns has the entry of that pattern, a column whose type name contains
\* none has no entry, and only columns have entries.
C13_EntryOfEachPattern ==
    DtypesComputed
        => /\ DOMAIN sql_dtypes \subseteq ColumnNames(WrittenColumns)
           /\ \A i \in 1..Len(WrittenColumns) :
                 LET c == WrittenColumns[i]
                 IN  /\ \A p \in DtypePatterns :
                           contains(p, c.dtype)
                              => /\ c.name \in DOMAIN sql_dtypes
                                 /\ sql_dtypes[c.name] = SqlTypeOf(p)
                     /\ (\A p \in DtypePatterns : ~contains(p, c.dtype))
                           => c.name \notin DOMAIN sql_dtypes

\* C13 (amended): the mapping has at most one entry per column name and only
\* for column names; a name has an entry exactly if the type name of some
\* column of that name contains a pattern, and the entry is decided by the
\* last such column: it is the sql type of the last of the patterns object,
\* datetime, float, int that its type name contains.
C13_EntryOfLastPattern ==
    DtypesComputed
        => /\ DOMAIN sql_dtypes \subseteq ColumnNames(WrittenColumns)
           /\ \A n \in ColumnNames(WrittenColumns) :
                 IF MatchingNamed(n) = {}
                 THEN n \notin DOMAIN sql_dtypes
                 ELSE /\ n \in DOMAIN sql_dtypes
                      /\ sql_dtypes[n] = LastPatternType(LastMatching(n).dtype)

\* the mapping of a frame with an interval column, whose type name contains
\* "float" and "int", and a bool column, whose type name contains no pattern
C13_Witness ==
    /\ DtypesComputed
    /\ "bin" \in DOMAIN sql_dtypes
    /\ sql_dtypes["bin"] = "INT"
    /\ "flag" \notin DOMAIN sql_dtypes
    /\ "id" \in DOMAIN sql_dtypes
\* C14: the backoff sleep after the failed attempt n of a load or write call
\* lasts 1 * 2^(n-1) seconds clamped to between 5 and 10 seconds, the sleeps of
\* a call never get shorter, there is one sleep per failed attempt but the
\* last, and so none after the 10th attempt.
C14_BackoffBetween5And10 ==
    /\ Len(waits) = sleeps
    /\ Len(waits) <= 9
    /\ pc = "attempt" => Len(waits) = bodyRuns
    /\ pc = "done" => Len(waits) = bodyRuns - 1
    /\ \A n \in 1..Len(waits) :
          /\ waits[n] >= 5
          /\ waits[n] <= 10
          /\ 2 ^ (n - 1) < 5 => waits[n] = 5
          /\ 2 ^ (n - 1) \in 5..10 => waits[n] = 2 ^ (n - 1)
          /\ 2 ^ (n - 1) > 10 => waits[n] = 10
          /\ n > 1 => waits[n - 1] <= waits[n]

\* a write that failed ten times has slept nine times: 5, 5, 5, 8 and then 10
\* seconds
C14_Witness ==
    /\ pc = "done"
    /\ call.op = "write"
    /\ outcome.kind = "raised"
    /\ bodyRuns = 10
    /\ waits = <<5, 5, 5, 8, 10, 10, 10, 10, 10>>
\* C15: a failed attempt of a load leaves nothing behind that makes the next
\* attempt fail: if the attempt that failed could have returned, the attempt
\* after it can return once the fault is gone.
C15_FailedAttemptLeavesNoResidue ==
    [][/\ pc = "attempt" /\ call.op = "load" /\ LoadCanReturn
       /\ pc' = "attempt"
       => LoadCanReturn']_vars
\* the file f is a cache artifact of the query name q
IsArtifactOf(f, q) == \E d \in Dates : f = cache_file_fmt(q, d)

\* C16: an attempt of a load for a query name changes only that name's own
\* cache artifacts: every other file of the cache directory, the artifacts of
\* other query names included, is there after the step as it was before.
C16_LoadTouchesOnlyOwnArtifacts ==
    [][pc = "attempt" /\ call.op = "load"
       => \A f \in DOMAIN files \cup DOMAIN files' :
             ~IsArtifactOf(f, call.filename)
                => /\ f \in DOMAIN files
                   /\ f \in DOMAIN files'
                   /\ files'[f] = files[f]]_vars
\* C17: the cache directory changes only in an attempt of a load that ran the
\* query, built the result and closed the connection; so a load whose attempts
\* all fail before that leaves the directory as it was. A file is written only
\* with use_cache, it is today's artifact of the query, and when it is written
\* no other file whose name starts with the query name is left.
C17_EvictionOnlyAfterQuery ==
    /\ [](/\ pc \in {"attempt", "done"}
          /\ call.op = "load"
          /\ "close" \notin events
          => ArtifactDays(call.filename) = call.had)
    /\ [][files' # files
          => /\ pc = "attempt"
             /\ call.op = "load"
             /\ db_client # "closed"
             /\ db_client' = "closed"
             /\ {"execute", "close", "clear"} \subseteq events'
             /\ \A f \in DOMAIN files' :
                   f \notin DOMAIN files \/ files'[f] # files[f]
                      => /\ call.use_cache
                         /\ "dump" \in events'
                         /\ f = CacheFile
                         /\ Matching(files', call.filename) = {CacheFile}]_vars

\* a load failed ten times at the query and the artifacts the query name had
\* before the call are all still there
C17_Witness ==
    /\ pc = "done"
    /\ call.op = "load"
    /\ outcome.kind = "raised"
    /\ bodyRuns = 10
    /\ "execute" \in events
    /\ "close" \notin events
    /\ call.had # {}
    /\ ArtifactDays(call.filename) = call.had
====
